---- MODULE Spec2Model ----
(***************************************************************************)
(* HolidayMatch: the Matcher (features/matcher/matcher.py), the AppState   *)
(* (lib/states.py) and the stage handlers (lib/handlers.py, app.py).       *)
(*                                                                         *)
(* Python values are modelled as records with a "type" field, so that the  *)
(* isinstance() checks of the code are decided by the value that is passed *)
(* and not by the name of the action.                                      *)
(***************************************************************************)
EXTENDS Integers, Sequences, FiniteSets, TLC

\* ------------------------------------------------------------------ bounds
\* longest list handed to Matcher(), replace_suggestions or add_suggestions
MaxBatch == 2
\* longest recommendation list add_suggestions may build
MaxLen == 3
\* longest dislike history
MaxDisliked == 3

\* ------------------------------------------------------------ Destinations
\* Destination objects.  Two of them carry the same name: the upstream model
\* is not bound to return distinct names, and .name is not the identity.
Destinations == {"d1", "d2", "d3"}

Name(d) == CASE d = "d1" -> "Rome"
             [] d = "d2" -> "Oslo"
             [] d = "d3" -> "Rome"

\* Python's None, as the result of suggest()
None == "None"

\* ------------------------------------------------------------ Python values
PyList(items) == [type |-> "list", items |-> items]
PyNone == [type |-> "NoneType", items |-> <<>>]
PyTuple(items) == [type |-> "tuple", items |-> items]

RECURSIVE SeqsUpTo(_, _)
SeqsUpTo(S, n) ==
    IF n = 0 THEN {<<>>}
    ELSE LET shorter == SeqsUpTo(S, n - 1)
         IN  shorter \cup {Append(s, x) : s \in {t \in shorter : Len(t) = n - 1}, x \in S}

\* the lists a caller passes
Batches == {PyList(s) : s \in SeqsUpTo(Destinations, MaxBatch)}
\* the values a caller passes that are no list
NonLists == {PyNone, PyTuple(<<>>), PyTuple(<<"d1">>)}

isinstance_list(v) == v.type = "list"

\* list[i] of Python: a negative index counts from the end, an index outside
\* -len .. len-1 raises IndexError
ListGet(items, i) ==
    IF 0 <= i /\ i < Len(items) THEN [exc |-> "none", val |-> items[i + 1]]
    ELSE IF i < 0 /\ -i <= Len(items) THEN [exc |-> "none", val |-> items[Len(items) + i + 1]]
    ELSE [exc |-> "IndexError", val |-> None]

\* ------------------------------------------------------------------ Matcher
\* A Matcher object: __destination_recommendations, __current_index,
\* disliked_destinations
NoMatcher == [recs |-> <<>>, cursor |-> 0, disliked |-> <<>>]

\* Matcher.__init__
Matcher_init(recommendations) ==
    [recs |-> recommendations.items, cursor |-> 0, disliked |-> <<>>]

get_index(m) == m.cursor

get_recommendations_count(m) == Len(m.recs)

\* suggest without the except clause: the IndexError leaves the method
suggest_Uncaught(m) ==
    LET got == ListGet(m.recs, m.cursor)
    IN  IF got.exc = "IndexError" THEN "IndexError" ELSE got.val

\* Matcher.suggest: the IndexError of the subscript is caught and turned into None
suggest(m) ==
    LET got == ListGet(m.recs, m.cursor)
    IN  IF got.exc = "IndexError" THEN None ELSE got.val

\* replace_suggestions that forgets to reset the index
replace_suggestions_KeepsCursor(m, suggestions) ==
    IF ~isinstance_list(suggestions)
    THEN [m |-> m, exc |-> "TypeError"]
    ELSE [m |-> [m EXCEPT !.recs = suggestions.items], exc |-> "none"]

\* replace_suggestions that starts a new dislike history with the new list
replace_suggestions_ClearsDisliked(m, suggestions) ==
    IF ~isinstance_list(suggestions)
    THEN [m |-> m, exc |-> "TypeError"]
    ELSE [m |-> [recs |-> suggestions.items, cursor |-> 0, disliked |-> <<>>],
          exc |-> "none"]

\* replace_suggestions that keeps the candidates not yet shown in front of the new ones
replace_suggestions_KeepsUnseen(m, suggestions) ==
    IF ~isinstance_list(suggestions)
    THEN [m |-> m, exc |-> "TypeError"]
    ELSE [m |-> [m EXCEPT !.recs = SubSeq(m.recs, m.cursor + 1, Len(m.recs))
                                      \o suggestions.items,
                          !.cursor = 0],
          exc |-> "none"]

\* Matcher.replace_suggestions: result [m, exc]
replace_suggestions(m, suggestions) ==
    IF ~isinstance_list(suggestions)
    THEN [m |-> m, exc |-> "TypeError"]
    ELSE [m |-> [m EXCEPT !.recs = suggestions.items, !.cursor = 0], exc |-> "none"]

\* add_suggestions without the isinstance check: extend takes any iterable
add_suggestions_NoTypeCheck(m, suggestions) ==
    IF suggestions.type = "NoneType"
    THEN [m |-> m, exc |-> "TypeError"]
    ELSE [m |-> [m EXCEPT !.recs = m.recs \o suggestions.items], exc |-> "none"]

\* add_suggestions that puts the new suggestions in front of the old ones
add_suggestions_Prepends(m, suggestions) ==
    IF ~isinstance_list(suggestions)
    THEN [m |-> m, exc |-> "TypeError"]
    ELSE [m |-> [m EXCEPT !.recs = suggestions.items \o m.recs], exc |-> "none"]

\* Matcher.add_suggestions: list.extend in place
add_suggestions(m, suggestions) ==
    IF ~isinstance_list(suggestions)
    THEN [m |-> m, exc |-> "TypeError"]
    ELSE [m |-> [m EXCEPT !.recs = m.recs \o suggestions.items], exc |-> "none"]

\* Matcher.list_suggestions
list_suggestions(m) == PyList(m.recs)

\* dislike that moves on before it records the name
dislike_AdvanceFirst(m) ==
    IF suggest(m) = None
    THEN [m |-> m, exc |-> "AttributeError"]
    ELSE LET moved == [m EXCEPT !.cursor = m.cursor + 1]
             s == suggest(moved)
         IN  [m |-> IF s = None THEN moved
                    ELSE [moved EXCEPT !.disliked = Append(m.disliked, Name(s))],
              exc |-> "none"]

\* dislike that skips the bookkeeping when there is no suggestion, and moves on
dislike_SilentWhenExhausted(m) ==
    LET s == suggest(m)
    IN  [m |-> [m EXCEPT !.disliked = IF s = None THEN m.disliked
                                      ELSE Append(m.disliked, Name(s)),
                         !.cursor = m.cursor + 1],
         exc |-> "none"]

\* dislike that jumps over the next suggestion
dislike_SkipsOne(m) ==
    LET s == suggest(m)
    IN  IF s = None
        THEN [m |-> m, exc |-> "AttributeError"]
        ELSE [m |-> [m EXCEPT !.disliked = Append(m.disliked, Name(s)),
                              !.cursor = IF m.cursor + 2 <= Len(m.recs)
                                         THEN m.cursor + 2 ELSE Len(m.recs)],
              exc |-> "none"]

\* Matcher.dislike: self.suggest().name raises AttributeError on None, before
\* anything is appended
\* dislike that records the name of the first recommendation
dislike_LogsFirst(m) ==
    IF m.cursor >= Len(m.recs) THEN [m |-> m, exc |-> "AttributeError"]
    ELSE [m |-> [m EXCEPT !.disliked = Append(@, Name(m.recs[1])),
                          !.cursor = @ + 1],
          exc |-> "none"]

dislike(m) ==
    LET s == suggest(m)
    IN  IF s = None
        THEN [m |-> m, exc |-> "AttributeError"]
        ELSE LET appended == [m EXCEPT !.disliked = Append(m.disliked, Name(s))]
             IN  [m |-> IF appended.cursor < Len(appended.recs)
                        THEN [appended EXCEPT !.cursor = appended.cursor + 1]
                        ELSE appended,
                  exc |-> "none"]

\* ----------------------------------------------------------------- AppState
\* lib/enums.py: the members of Stage, by their values
StageValues == {"start", "user_preferences", "retrieve_suggestions", "matcher",
                "present_details", "retrieve_new_suggestions"}

StageMember(v) == [type |-> "Stage", value |-> v]
Stages == {StageMember(v) : v \in StageValues}
START == StageMember("start")
USER_PREFERENCES == StageMember("user_preferences")
RETRIEVE_SUGGESTIONS == StageMember("retrieve_suggestions")
MATCHER == StageMember("matcher")
PRESENT_DETAILS == StageMember("present_details")
RETRIEVE_NEW_SUGGESTIONS == StageMember("retrieve_new_suggestions")

\* values that are no member of Stage: the raw identifiers, an unknown string, None
NonStages == {[type |-> "str", value |-> v] : v \in {"start", "matcher", "finished"}}
             \cup {[type |-> "NoneType", value |-> ""]}

isinstance_Stage(v) == v.type = "Stage"

\* features/travelagent/models.py: UserInfo(name, age, gender)
UserInfo(name, age, gender) ==
    [type |-> "UserInfo", name |-> name, age |-> age, gender |-> gender]
NoUserInfo == [type |-> "NoneType", name |-> "", age |-> 0, gender |-> ""]
UserInfos == {UserInfo("Ann", 20, "Female"), UserInfo("Bob", 20, "Other")}
\* values that are neither None nor a UserInfo: a dict with the fields, one without
NonUserInfos == {[type |-> "dict", name |-> "Ann", age |-> 20, gender |-> "Female"],
                 [type |-> "dict", name |-> "Ann", age |-> 0, gender |-> ""]}

isinstance_UserInfo(v) == v.type = "UserInfo"

\* the answers of the questionnaire, opaque to the core
Preferences == {"prefsA", "prefsB"}

\* stage setter that checks the value against the identifiers of the members
set_stage_ByValue(s, stage) ==
    IF stage.value \in StageValues
    THEN [s |-> [s EXCEPT !.stage = stage], exc |-> "none"]
    ELSE [s |-> s, exc |-> "TypeError"]

\* AppState.stage setter: result [s, exc]
set_stage(s, stage) ==
    IF isinstance_Stage(stage)
    THEN [s |-> [s EXCEPT !.stage = stage], exc |-> "none"]
    ELSE [s |-> s, exc |-> "TypeError"]

\* user_info setter without the type check
set_user_info_NoCheck(s, user_info) ==
    [s |-> [s EXCEPT !.user_info = user_info], exc |-> "none"]

\* AppState.user_info setter: result [s, exc]
set_user_info(s, user_info) ==
    IF user_info.type # "NoneType" /\ ~isinstance_UserInfo(user_info)
    THEN [s |-> s, exc |-> "TypeError"]
    ELSE [s |-> [s EXCEPT !.user_info = user_info], exc |-> "none"]

\* AppState.__init__
AppState_init ==
    [anonymous |-> TRUE,
     stage |-> START,
     user_preferences |-> None,
     matched_destination |-> None,
     itinerary |-> None,
     user_info |-> NoUserInfo]

\* reset that leaves the user in place
reset_KeepsUserInfo(s) ==
    LET s1 == [s EXCEPT !.anonymous = TRUE]
        s2 == set_stage(s1, START).s
    IN  [s2 EXCEPT !.user_preferences = None,
                   !.matched_destination = None,
                   !.itinerary = None]

\* AppState.reset
reset(s) ==
    LET s1 == [s EXCEPT !.anonymous = TRUE]
        s2 == set_stage(s1, START).s
        s3 == [s2 EXCEPT !.user_preferences = None,
                         !.matched_destination = None,
                         !.itinerary = None]
    IN  set_user_info(s3, NoUserInfo).s

get_is_anonymous(s) == s.anonymous

set_authorized(s) == [s EXCEPT !.anonymous = FALSE]

\* ------------------------------------------------------------- travel agent
\* a call travel_agent.get_travel_recommendations(preferences, user_information,
\* exclude_destinations); NoRequest when a step makes no call
NoRequest ==
    [made |-> FALSE, preferences |-> None, user_information |-> NoUserInfo,
     exclude |-> PyNone]

\* the list object a list_suggestions() call handed out, followed for as long
\* as it is the Matcher's own list object: what it held when it was returned
\* and what it holds now. NotListed: no such list is followed
NotListed == [held |-> FALSE, before |-> <<>>, now |-> <<>>]

\* list_suggestions, line 46: the Matcher's list object itself is returned
hand_out(m) == [held |-> TRUE, before |-> m.recs, now |-> m.recs]

\* add_suggestions, line 42: extend() changes the Matcher's list object in
\* place, and with it the list a caller holds
extend_in_place(l, suggestions) ==
    IF l.held THEN [l EXCEPT !.now = @ \o suggestions.items] ELSE l

\* __init__ line 11 and replace_suggestions line 31: the Matcher takes another
\* list object; no operation of the Matcher reaches the one handed out before,
\* which is followed no longer
rebind(l) == NotListed

\* -------------------------------------------------------------------- state
VARIABLES
    client,       \* who drives the objects: a caller of Matcher, a caller of
                  \* Matcher that keeps the list list_suggestions() returned, a
                  \* caller of AppState, or the app's stage handlers
    hasMatcher,   \* a Matcher object exists (st.session_state.matcher is set)
    matcher,      \* the Matcher object
    appState,     \* the AppState object (st.session_state.app_state)
    step,         \* st.session_state["step"]; 0 while the key is absent
    answers,      \* st.session_state["answers"]; None while the key is absent
    pc,           \* "idle" between script runs, "enriching" inside asyncio.gather,
                  \* "failing" once a task of the gather has raised
    batch,        \* the list the enrichment is running for
    pending,      \* positions of batch whose fetch_image task has not finished
    image_url,    \* Destination.image_url of every Destination object
    outstanding,  \* the requests to the location service that await a response
    fetched,      \* observer: what the lookup of each position of batch produced
    page,         \* what the last run of handle_present_details rendered
    listed,       \* the list object the last list_suggestions() call handed to
                  \* a caller that keeps it, while it is the Matcher's own
    request,      \* the call of get_travel_recommendations made by the last step
    submitted,    \* observer: preferences and user of the initial fetch
    op,           \* the operation that ran last
    arg,          \* the value it was called with
    ret,          \* what it returned or raised
    dislikeLog,   \* observer: name of suggest() before each successful dislike
    untouched     \* observer: no replace/add since the Matcher was constructed

matcherVars == <<hasMatcher, matcher, dislikeLog, untouched>>
sessionVars == <<appState, step, answers>>
enrichVars == <<pc, batch, pending, image_url, outstanding, fetched>>
agentVars == <<request, submitted>>
vars == <<client, hasMatcher, matcher, appState, step, answers, pc, batch, pending,
          image_url, outstanding, fetched, page, listed, request, submitted, op, arg,
          ret, dislikeLog, untouched>>

\* app.py: a new session holds a fresh AppState and no Matcher
Fresh ==
    /\ hasMatcher = FALSE
    /\ matcher = NoMatcher
    /\ appState = AppState_init
    /\ step = 0
    /\ answers = None
    /\ pc = "idle"
    /\ batch = <<>>
    /\ pending = {}
    /\ image_url = [d \in Destinations |-> "from_model"]
    /\ outstanding = {}
    /\ fetched = <<>>
    /\ page = {}
    /\ listed = NotListed
    /\ request = NoRequest
    /\ submitted = NoRequest
    /\ op = "none"
    /\ arg = PyNone
    /\ ret = "none"
    /\ dislikeLog = <<>>
    /\ untouched = TRUE

Init == client \in {"matcher_client", "state_client", "app"} /\ Fresh

\* the callers of the Matcher's methods
MatcherClients == {"matcher_client", "list_holder"}

\* ------------------------------------------------- a caller of the Matcher
Construct(L) ==
    /\ client \in MatcherClients
    /\ matcher' = Matcher_init(L)
    /\ hasMatcher' = TRUE
    /\ op' = "construct" /\ arg' = L /\ ret' = "none"
    /\ dislikeLog' = <<>>
    /\ untouched' = TRUE
    /\ listed' = rebind(listed)
    /\ UNCHANGED <<client, page, sessionVars, enrichVars, agentVars>>

CallSuggest ==
    /\ client \in MatcherClients /\ hasMatcher
    /\ op' = "suggest" /\ arg' = PyNone /\ ret' = suggest(matcher)
    /\ UNCHANGED <<client, page, listed, matcherVars, sessionVars, enrichVars, agentVars>>

CallDislike ==
    /\ client \in MatcherClients /\ hasMatcher
    /\ Len(matcher.disliked) < MaxDisliked
    /\ LET r == dislike(matcher)
       IN  /\ matcher' = r.m
           /\ op' = "dislike" /\ arg' = PyNone /\ ret' = r.exc
           /\ dislikeLog' = IF r.exc = "none" /\ suggest(matcher) # None
                            THEN Append(dislikeLog, Name(suggest(matcher)))
                            ELSE dislikeLog
    /\ UNCHANGED <<client, page, listed, hasMatcher, untouched, sessionVars, enrichVars, agentVars>>

CallReplace(v) ==
    /\ client \in MatcherClients /\ hasMatcher
    /\ LET r == replace_suggestions(matcher, v)
       IN  /\ matcher' = r.m
           /\ op' = "replace_suggestions" /\ arg' = v /\ ret' = r.exc
           /\ untouched' = (untouched /\ r.exc # "none")
           /\ listed' = IF r.exc = "none" THEN rebind(listed) ELSE listed
    /\ UNCHANGED <<client, page, hasMatcher, dislikeLog, sessionVars, enrichVars, agentVars>>

CallAdd(v) ==
    /\ client \in MatcherClients /\ hasMatcher
    /\ Len(matcher.recs) + Len(v.items) <= MaxLen
    /\ LET r == add_suggestions(matcher, v)
       IN  /\ matcher' = r.m
           /\ op' = "add_suggestions" /\ arg' = v /\ ret' = r.exc
           /\ untouched' = (untouched /\ r.exc # "none")
           /\ listed' = IF r.exc = "none" THEN extend_in_place(listed, v) ELSE listed
    /\ UNCHANGED <<client, page, hasMatcher, dislikeLog, sessionVars, enrichVars, agentVars>>

CallList ==
    /\ client \in MatcherClients /\ hasMatcher
    /\ op' = "list_suggestions" /\ arg' = list_suggestions(matcher) /\ ret' = "list"
    /\ listed' = IF client = "list_holder" THEN hand_out(matcher) ELSE listed
    /\ UNCHANGED <<client, page, matcherVars, sessionVars, enrichVars, agentVars>>

MatcherClientNext ==
    \/ \E L \in Batches : Construct(L)
    \/ CallSuggest
    \/ CallDislike
    \/ \E v \in Batches \cup NonLists : CallReplace(v)
    \/ \E v \in Batches \cup NonLists : CallAdd(v)
    \/ CallList

\* -------------------------------------------------- a caller of the AppState
AssignStage(v) ==
    /\ client = "state_client"
    /\ LET r == set_stage(appState, v)
       IN  /\ appState' = r.s
           /\ op' = "stage" /\ arg' = v /\ ret' = r.exc
    /\ UNCHANGED <<client, page, listed, matcherVars, step, answers, enrichVars, agentVars>>

AssignUserInfo(v) ==
    /\ client = "state_client"
    /\ LET r == set_user_info(appState, v)
       IN  /\ appState' = r.s
           /\ op' = "user_info" /\ arg' = v /\ ret' = r.exc
    /\ UNCHANGED <<client, page, listed, matcherVars, step, answers, enrichVars, agentVars>>

\* user_preferences and matched_destination are plain attributes
AssignPreferences(p) ==
    /\ client = "state_client"
    /\ appState' = [appState EXCEPT !.user_preferences = p]
    /\ op' = "user_preferences" /\ arg' = PyNone /\ ret' = "none"
    /\ UNCHANGED <<client, page, listed, matcherVars, step, answers, enrichVars, agentVars>>

AssignMatched(d) ==
    /\ client = "state_client"
    /\ appState' = [appState EXCEPT !.matched_destination = d]
    /\ op' = "matched_destination" /\ arg' = PyNone /\ ret' = "none"
    /\ UNCHANGED <<client, page, listed, matcherVars, step, answers, enrichVars, agentVars>>

CallReset ==
    /\ client = "state_client"
    /\ appState' = reset(appState)
    /\ op' = "reset" /\ arg' = PyNone /\ ret' = "none"
    /\ UNCHANGED <<client, page, listed, matcherVars, step, answers, enrichVars, agentVars>>

CallSetAuthorized ==
    /\ client = "state_client"
    /\ appState' = set_authorized(appState)
    /\ op' = "set_authorized" /\ arg' = PyNone /\ ret' = "none"
    /\ UNCHANGED <<client, page, listed, matcherVars, step, answers, enrichVars, agentVars>>

StateClientNext ==
    \/ \E v \in Stages \cup NonStages : AssignStage(v)
    \/ \E v \in UserInfos \cup {NoUserInfo} \cup NonUserInfos : AssignUserInfo(v)
    \/ \E p \in Preferences \cup {None} : AssignPreferences(p)
    \/ \E d \in Destinations \cup {None} : AssignMatched(d)
    \/ CallReset
    \/ CallSetAuthorized


\* ------------------------------------------------------- the stage handlers
\* what travel_agent.get_travel_recommendations hands back: a list (possibly
\* empty), or an exception of the upstream call
Raised == [type |-> "exception", items |-> <<>>]

\* validate_python builds one new Destination object per entry of the reply, so
\* the objects of a returned list are distinct (their names need not be)
Distinct(items) == \A i, j \in 1 .. Len(items) : i # j => items[i] # items[j]

RecommendOutcomes == {L \in Batches : Distinct(L.items)} \cup {Raised}

\* only "Get new suggestions" asks the travel agent
OutcomesFor(button) == IF button = "refill" THEN RecommendOutcomes ELSE {Raised}

\* handle_user_preferences, lines 90-93: the session keys are created on demand
ensure_step(st) == IF st = 0 THEN 1 ELSE st
ensure_answers(a) == IF a = None THEN "empty" ELSE a

\* the number of question groups in handle_user_preferences
QuestionGroups == 4

\* a button that is never disabled
button_disabled_Never(name, gender) == FALSE

\* handle_start, line 76: "Let's go!" is disabled without a name or a gender
button_disabled(name, gender) == name = "" \/ gender = None

\* "Get suggestions" that stores the preferences and leaves the stage alone
on_get_suggestions_KeepsStage(s, a) == [s EXCEPT !.user_preferences = a]

\* "Get suggestions" that sets the stage and does not store the preferences
on_get_suggestions_ForgetsPrefs(s, a) == set_stage(s, RETRIEVE_SUGGESTIONS).s

\* handle_user_preferences, lines 254-257: the preferences and the stage are
\* stored before the travel agent is asked
on_get_suggestions(s, a) ==
    set_stage([s EXCEPT !.user_preferences = a], RETRIEVE_SUGGESTIONS).s

\* handle_user_preferences, lines 262-265: the initial fetch passes the
\* answers and the user, and no exclusion list
initial_request(s, a) ==
    [made |-> TRUE, preferences |-> a, user_information |-> s.user_info,
     exclude |-> PyNone]

\* a refill that excludes only the names disliked in the list that just ran out
refill_request_CurrentBatchOnly(s, m) ==
    [made |-> TRUE, preferences |-> s.user_preferences,
     user_information |-> s.user_info,
     exclude |-> PyList(SubSeq(m.disliked, Len(m.disliked) - m.cursor + 1,
                               Len(m.disliked)))]

\* handle_matcher, lines 341-344: the refill passes the stored preferences,
\* the user and the Matcher's disliked_destinations
refill_request(s, m) ==
    [made |-> TRUE, preferences |-> s.user_preferences,
     user_information |-> s.user_info, exclude |-> PyList(m.disliked)]

\* a test for None in place of the truth value of the list
has_results_NotNone(outcome) == TRUE

\* "if destination_recommendations:" of both fetches: a list is true when it
\* has an element
has_results(outcome) == outcome.items # <<>>

\* a matcher page that offers the refill whatever suggest() returned
has_suggestion_Never(suggestion) == FALSE

\* handle_matcher, line 294: "if suggestion:" shows the card with Dislike and
\* Like, else the page with "Get new suggestions"
has_suggestion(suggestion) == suggestion # None

\* "Like" that moves on without storing the destination
on_like_ForgetsMatch(s, suggestion) == set_stage(s, PRESENT_DETAILS).s

\* handle_matcher, lines 325-326: "Like"
on_like(s, suggestion) ==
    set_stage([s EXCEPT !.matched_destination = suggestion], PRESENT_DETAILS).s

\* a refill that drops the returned destinations whose name was disliked
refill_install_Dedups(m, outcome) ==
    LET fresh(d) == ~\E j \in 1 .. Len(m.disliked) : m.disliked[j] = Name(d)
    IN  replace_suggestions(m, PyList(SelectSeq(outcome.items, fresh)))

\* handle_matcher, line 346: the returned list is handed to the Matcher as it is
refill_install(m, outcome) == replace_suggestions(m, outcome)

\* the Destination objects of a returned list are new objects, whose image_url
\* is the one the model supplied
new_objects(urls, items) ==
    [d \in Destinations |->
        IF \E i \in 1 .. Len(items) : items[i] = d THEN "from_model" ELSE urls[d]]

\* handle_start: one run of the script with the widgets' values; the button is
\* enabled only with a name and a gender
HandleStart(name, gender, clicked) ==
    /\ client = "app" /\ pc = "idle" /\ appState.stage = START
    /\ clicked => ~button_disabled(name, gender)
    /\ LET s1 == IF name # "" /\ gender # None
                 THEN set_user_info(appState, UserInfo(name, 20, gender)).s
                 ELSE appState
           s2 == IF clicked THEN set_stage(s1, USER_PREFERENCES).s ELSE s1
       IN  appState' = s2
    /\ op' = "handle_start" /\ arg' = PyNone /\ ret' = "none"
    /\ request' = NoRequest
    /\ UNCHANGED <<client, page, listed, matcherVars, step, answers, enrichVars, submitted>>

\* handle_user_preferences while a question group is shown: the answers of the
\* group are stored, "Next" moves to the following group
HandleQuestions(a, clicked) ==
    /\ client = "app" /\ pc = "idle" /\ appState.stage = USER_PREFERENCES
    /\ ensure_step(step) <= QuestionGroups
    /\ answers' = a
    /\ step' = IF clicked THEN ensure_step(step) + 1 ELSE ensure_step(step)
    /\ op' = "handle_user_preferences" /\ arg' = PyNone /\ ret' = "none"
    /\ request' = NoRequest
    /\ UNCHANGED <<client, page, listed, matcherVars, appState, enrichVars, submitted>>

\* handle_user_preferences on the summary page, "Restart" or no button
HandleSummary(restart) ==
    /\ client = "app" /\ pc = "idle" /\ appState.stage = USER_PREFERENCES
    /\ ensure_step(step) = QuestionGroups + 1
    /\ IF restart
       THEN step' = 1 /\ answers' = "empty"
       ELSE step' = ensure_step(step) /\ answers' = ensure_answers(answers)
    /\ op' = "handle_user_preferences" /\ arg' = PyNone /\ ret' = "none"
    /\ request' = NoRequest
    /\ UNCHANGED <<client, page, listed, matcherVars, appState, enrichVars, submitted>>

\* handle_user_preferences, "Get suggestions": the preferences and the stage
\* are stored before the recommendations are requested; a non-empty result
\* starts the enrichment
GetSuggestions(outcome) ==
    /\ client = "app" /\ pc = "idle" /\ appState.stage = USER_PREFERENCES
    /\ ensure_step(step) = QuestionGroups + 1
    /\ appState' = on_get_suggestions(appState, ensure_answers(answers))
    /\ step' = ensure_step(step) /\ answers' = ensure_answers(answers)
    /\ request' = initial_request(appState, ensure_answers(answers))
    /\ submitted' = request'
    /\ IF outcome # Raised /\ has_results(outcome)
       THEN /\ pc' = "enriching"
            /\ batch' = outcome.items
            /\ pending' = 1 .. Len(outcome.items)
            /\ image_url' = new_objects(image_url, outcome.items)
            /\ fetched' = [i \in 1 .. Len(outcome.items) |-> "pending"]
       ELSE UNCHANGED <<pc, batch, pending, image_url, fetched>>
    /\ op' = "get_suggestions" /\ arg' = outcome
    /\ ret' = IF outcome = Raised THEN "raised" ELSE "none"
    /\ UNCHANGED <<client, page, listed, matcherVars, outstanding>>

\* the URL of photo j of the location called n, in one of its sizes
Url(n, j, size) ==
    CASE n = "Rome" /\ j = 1 /\ size = "original" -> "rome/1/original"
      [] n = "Rome" /\ j = 1 /\ size = "thumbnail" -> "rome/1/thumbnail"
      [] n = "Rome" /\ j = 2 /\ size = "original" -> "rome/2/original"
      [] n = "Rome" /\ j = 2 /\ size = "thumbnail" -> "rome/2/thumbnail"
      [] n = "Oslo" /\ j = 1 /\ size = "original" -> "oslo/1/original"
      [] n = "Oslo" /\ j = 1 /\ size = "thumbnail" -> "oslo/1/thumbnail"
      [] n = "Oslo" /\ j = 2 /\ size = "original" -> "oslo/2/original"
      [] n = "Oslo" /\ j = 2 /\ size = "thumbnail" -> "oslo/2/thumbnail"

\* an entry of photos["data"]: fetch_image reads ["images"]["original"]["url"]
Photo(n, j) ==
    [original |-> Url(n, j, "original"), thumbnail |-> Url(n, j, "thumbnail")]

\* what get_location_photo_async hands to fetch_image: None, a reply without
\* "data", a reply with an empty "data", a reply with one or two photos
NoPhotos == [type |-> "NoneType", has_data |-> FALSE, data |-> <<>>]
PhotoResponses(n) ==
    {NoPhotos,
     [type |-> "dict", has_data |-> FALSE, data |-> <<>>],
     [type |-> "dict", has_data |-> TRUE, data |-> <<>>],
     [type |-> "dict", has_data |-> TRUE, data |-> <<Photo(n, 1)>>],
     [type |-> "dict", has_data |-> TRUE, data |-> <<Photo(n, 1), Photo(n, 2)>>]}

\* the lookup raised instead of returning
LookupRaised == [type |-> "exception", has_data |-> FALSE, data |-> <<>>]

\* fetch_image that indexes "data" without testing that it has an element
fetch_image_NoEmptyTest(photos) ==
    IF photos.type = "exception" THEN [exc |-> "raised", url |-> None]
    ELSE IF photos.type # "NoneType" /\ photos.has_data
         THEN IF photos.data # <<>>
              THEN [exc |-> "none", url |-> photos.data[1].original]
              ELSE [exc |-> "raised", url |-> None]
         ELSE [exc |-> "none", url |-> None]

\* fetch_image of fetch_recommendations_with_images_async, lines 32-37, for the
\* value the awaited lookup produced: the new image_url, or the exception
fetch_image(photos) ==
    IF photos.type = "exception" THEN [exc |-> "raised", url |-> None]
    ELSE IF photos.type # "NoneType" /\ photos.has_data /\ photos.data # <<>>
         THEN [exc |-> "none", url |-> photos.data[1].original]
         ELSE [exc |-> "none", url |-> None]

\* the calls one lookup makes to the location service: a search by name, and
\* the photos of the location found
next_call(call, reply) ==
    IF call = "search" /\ reply = "found" THEN "photos" ELSE "done"

\* httpx.get is the synchronous call: the thread, and with it the event loop
\* and every other task, waits until the response is there
blocked(o) == o # {}

\* a lookup and what it produced, as op/arg/ret record it
Lookup(d, photos) == [type |-> "lookup", items |-> <<d>>, photos |-> photos]

\* a task of the gather starts: its first request goes out
StartLookup(i) ==
    /\ client = "app" /\ pc \in {"enriching", "failing"} /\ i \in pending
    /\ ~blocked(outstanding)
    /\ outstanding' = {[task |-> i, call |-> "search"]}
    /\ op' = "request" /\ arg' = PyList(<<batch[i]>>) /\ ret' = "none"
    /\ request' = NoRequest
    /\ UNCHANGED <<client, page, listed, matcherVars, sessionVars, submitted,
                   pc, batch, pending, image_url, fetched>>

\* the task of position i ends with what its lookup produced: fetch_image
\* stores the image_url, or the exception is the result of the task
TaskEnds(i, photos) ==
    LET r == fetch_image(photos)
    IN  /\ pending' = pending \ {i}
        /\ outstanding' = {}
        /\ IF r.exc = "none"
           THEN /\ image_url' = [image_url EXCEPT ![batch[i]] = r.url]
                /\ fetched' = [fetched EXCEPT ![i] = r.url]
                /\ UNCHANGED pc
           ELSE /\ pc' = "failing"
                /\ UNCHANGED <<image_url, fetched>>
        /\ op' = "fetch_image" /\ arg' = Lookup(batch[i], photos) /\ ret' = r.exc
        /\ request' = NoRequest
        /\ UNCHANGED <<client, page, listed, matcherVars, sessionVars, submitted, batch>>

\* the response of the search arrives: the photos are requested for the
\* location found; without a location the lookup returns None
SearchResponse(i, reply) ==
    /\ client = "app" /\ [task |-> i, call |-> "search"] \in outstanding
    /\ IF next_call("search", reply) = "photos"
       THEN /\ outstanding' = {[task |-> i, call |-> "photos"]}
            /\ op' = "search" /\ arg' = PyList(<<batch[i]>>) /\ ret' = "none"
            /\ request' = NoRequest
            /\ UNCHANGED <<client, page, listed, matcherVars, sessionVars, submitted,
                           pc, batch, pending, image_url, fetched>>
       ELSE TaskEnds(i, IF reply = "raise" THEN LookupRaised ELSE NoPhotos)

\* the response of the photos request arrives and fetch_image runs to its end
EnrichTask(i, photos) ==
    /\ client = "app" /\ [task |-> i, call |-> "photos"] \in outstanding
    /\ TaskEnds(i, photos)

\* asyncio.gather without return_exceptions hands the first exception to the
\* awaiting handler; asyncio.run cancels the tasks that have not finished, and
\* the exception leaves run_async_task and the handler
GatherRaises ==
    /\ client = "app" /\ pc = "failing" /\ ~blocked(outstanding)
    /\ pc' = "idle" /\ batch' = <<>> /\ pending' = {} /\ fetched' = <<>>
    /\ op' = "gather" /\ arg' = Raised /\ ret' = "raised"
    /\ request' = NoRequest
    /\ UNCHANGED <<client, page, listed, matcherVars, sessionVars, submitted,
                   image_url, outstanding>>

\* a gather that returns as soon as one task has finished
gather_done_FirstCompleted(p, b) == p # 1 .. Len(b)

\* asyncio.gather, line 41: returns when every task of the batch has finished
gather_done(p, b) == p = {}

\* handle_user_preferences after the gather: the Matcher is created and stored,
\* the stage becomes MATCHER
FinishFetch ==
    /\ client = "app" /\ pc = "enriching" /\ gather_done(pending, batch)
    /\ ~blocked(outstanding)
    /\ matcher' = Matcher_init(PyList(batch))
    /\ hasMatcher' = TRUE
    /\ dislikeLog' = <<>> /\ untouched' = TRUE
    /\ appState' = set_stage(appState, MATCHER).s
    /\ pc' = "idle" /\ batch' = <<>> /\ pending' = {} /\ fetched' = <<>>
    /\ op' = "construct" /\ arg' = PyList(batch) /\ ret' = "none"
    /\ request' = NoRequest
    /\ UNCHANGED <<client, page, listed, step, answers, image_url, outstanding,
                   submitted>>

\* handle_matcher: one run of the script with the button that was pressed
HandleMatcher(button, outcome) ==
    /\ client = "app" /\ pc = "idle" /\ appState.stage = MATCHER
    /\ IF ~hasMatcher
       THEN /\ op' = "matcher_not_found" /\ arg' = PyNone /\ ret' = "none"
            /\ request' = NoRequest
            /\ UNCHANGED <<matcherVars, appState, image_url>>
       ELSE LET suggestion == suggest(matcher)
            IN  IF has_suggestion(suggestion)
                THEN CASE button = "dislike" ->
                            /\ Len(matcher.disliked) < MaxDisliked
                            /\ LET r == dislike(matcher)
                               IN  /\ matcher' = r.m
                                   /\ op' = "dislike" /\ arg' = PyNone /\ ret' = r.exc
                                   /\ dislikeLog' = IF r.exc = "none" /\ suggestion # None
                                                    THEN Append(dislikeLog, Name(suggestion))
                                                    ELSE dislikeLog
                            /\ request' = NoRequest
                            /\ UNCHANGED <<hasMatcher, untouched, appState, image_url>>
                       [] button = "like" ->
                            /\ appState' = on_like(appState, suggestion)
                            /\ op' = "like" /\ arg' = PyNone /\ ret' = "none"
                            /\ request' = NoRequest
                            /\ UNCHANGED <<matcherVars, image_url>>
                       [] button = "none" ->
                            /\ op' = "handle_matcher" /\ arg' = PyNone /\ ret' = "none"
                            /\ request' = NoRequest
                            /\ UNCHANGED <<matcherVars, appState, image_url>>
                       [] OTHER -> FALSE
                ELSE CASE button = "refill" ->
                            /\ arg' = outcome
                            /\ request' = refill_request(appState, matcher)
                            /\ IF outcome # Raised /\ has_results(outcome)
                               THEN LET r == refill_install(matcher, outcome)
                                    IN  /\ matcher' = r.m
                                        /\ op' = "replace_suggestions" /\ ret' = r.exc
                                        /\ untouched' = (untouched /\ r.exc # "none")
                                        /\ image_url' = new_objects(image_url, outcome.items)
                                        /\ UNCHANGED <<hasMatcher, dislikeLog>>
                               ELSE /\ op' = "refill"
                                    /\ ret' = IF outcome = Raised THEN "raised" ELSE "none"
                                    /\ UNCHANGED <<matcherVars, image_url>>
                            /\ UNCHANGED appState
                       [] button = "none" ->
                            /\ op' = "handle_matcher" /\ arg' = PyNone /\ ret' = "none"
                            /\ request' = NoRequest
                            /\ UNCHANGED <<matcherVars, appState, image_url>>
                       [] OTHER -> FALSE
    /\ UNCHANGED <<client, page, listed, step, answers, pc, batch, pending,
                   outstanding, fetched, submitted>>

\* what get_location_details_async hands back: a record with the coordinates,
\* a record without them, None, or an exception
DetailsOutcomes == {"coordinates", "no_coordinates", "none", "raise"}

\* what get_location_overview hands back: the text, None, or an exception
OverviewOutcomes == {"text", "none", "raise"}

\* the two requests of handle_present_details and what they produced
DetailsRun(details, overview) ==
    [type |-> "details", items |-> <<>>, details |-> details, overview |-> overview]

\* handle_present_details, lines 359-379, in the order of the script: the
\* details are awaited, the title is written, the coordinates are read with
\* location_details["latitude"], the image is shown, the overview is requested
\* and stripped; the first exception ends the run. Result: what was rendered
\* and whether an exception left the handler
present_details(details, overview) ==
    IF details = "raise" THEN [page |-> {}, exc |-> "raised"]
    ELSE IF details # "coordinates" THEN [page |-> {"title"}, exc |-> "raised"]
    ELSE IF overview # "text"
         THEN [page |-> {"title", "coordinates", "image"}, exc |-> "raised"]
         ELSE [page |-> {"title", "coordinates", "image", "overview"}, exc |-> "none"]

\* handle_present_details: the page of the matched destination
HandlePresentDetails(details, overview) ==
    /\ client = "app" /\ pc = "idle" /\ appState.stage = PRESENT_DETAILS
    /\ IF appState.matched_destination = None
       THEN /\ op' = "destination_not_found" /\ arg' = PyNone /\ ret' = "none"
            /\ page' = {}
       ELSE LET r == present_details(details, overview)
            IN  /\ op' = "handle_present_details"
                /\ arg' = DetailsRun(details, overview)
                /\ ret' = r.exc
                /\ page' = r.page
    /\ request' = NoRequest
    /\ UNCHANGED <<client, listed, matcherVars, sessionVars, enrichVars, submitted>>

\* app.py: a stage that has no entry in stage_handlers
NoHandler ==
    /\ client = "app" /\ pc = "idle"
    /\ appState.stage \notin {START, USER_PREFERENCES, MATCHER, PRESENT_DETAILS}
    /\ op' = "no_handler" /\ arg' = PyNone /\ ret' = "none"
    /\ request' = NoRequest
    /\ UNCHANGED <<client, page, listed, matcherVars, sessionVars, enrichVars, submitted>>

HandlerNext ==
    \/ \E name \in {"", "Ann", "Bob"}, gender \in {None, "Female"}, clicked \in BOOLEAN :
          HandleStart(name, gender, clicked)
    \/ \E a \in Preferences, clicked \in BOOLEAN : HandleQuestions(a, clicked)
    \/ \E restart \in BOOLEAN : HandleSummary(restart)
    \/ \E outcome \in RecommendOutcomes : GetSuggestions(outcome)
    \/ \E i \in pending : StartLookup(i)
    \/ \E i \in pending, reply \in {"found", "nodata", "raise"} : SearchResponse(i, reply)
    \/ \E i \in pending :
          \E photos \in PhotoResponses(Name(batch[i])) \cup {LookupRaised} :
             EnrichTask(i, photos)
    \/ GatherRaises
    \/ FinishFetch
    \/ \E button \in {"none", "dislike", "like", "refill"} :
          \E outcome \in OutcomesFor(button) : HandleMatcher(button, outcome)
    \/ \E details \in DetailsOutcomes, overview \in OverviewOutcomes :
          HandlePresentDetails(details, overview)
    \/ NoHandler

Next == MatcherClientNext \/ StateClientNext \/ HandlerNext

Spec == Init /\ [][Next]_vars

\* the session of the app alone: every step is a run of a stage handler
InitApp == Init /\ client = "app"

AppSpec == InitApp /\ [][HandlerNext]_vars

\* a caller of the Matcher that keeps the list list_suggestions() returned
InitList == client = "list_holder" /\ Fresh

ListSpec == InitList /\ [][MatcherClientNext]_vars

\* ------------------------------------------------------------------- claims
\* the Destination at the cursor, read off the list without suggest()
Exhausted(m) == m.cursor >= Len(m.recs)
CurrentItem(m) == IF Exhausted(m) THEN None ELSE m.recs[m.cursor + 1]

RECURSIVE Names(_)
Names(items) == IF items = <<>> THEN <<>>
                ELSE <<Name(Head(items))>> \o Names(Tail(items))

\* a step on one and the same Matcher object
SameMatcher == hasMatcher /\ hasMatcher' /\ op' # "construct"

\* C1: in every reachable state of a Matcher, after calls that succeed and calls
\* that fail, 0 <= cursor <= len(recommendations).
C1_CursorInBounds ==
    hasMatcher => (0 <= matcher.cursor /\ matcher.cursor <= Len(matcher.recs))

C1_Witness ==
    /\ hasMatcher /\ op = "dislike" /\ ret = "AttributeError"
    /\ matcher.cursor = Len(matcher.recs) /\ matcher.cursor > 0

\* what C2 says of the states
C2_StateOK ==
    hasMatcher =>
        /\ matcher.disliked = dislikeLog
        /\ untouched =>
              /\ matcher.disliked = Names(SubSeq(matcher.recs, 1, matcher.cursor))
              /\ op = "suggest" => ret = CurrentItem(matcher)

\* what C2 says of the steps
C2_StepOK ==
    /\ op' = "construct" => matcher'.recs = arg'.items /\ matcher'.disliked = <<>>
    /\ (SameMatcher /\ untouched') => matcher'.recs = matcher.recs
    /\ SameMatcher =>
          IF op' = "dislike" /\ ret' = "none"
          THEN /\ ~Exhausted(matcher)
               /\ matcher'.disliked = Append(matcher.disliked, Name(CurrentItem(matcher)))
          ELSE matcher'.disliked = matcher.disliked

\* C2: disliked_names is the sequence of the names of the current suggestion at
\* each successful dislike(), in call order: only a successful dislike changes
\* it, by appending that one name; on a Matcher whose list was never replaced
\* or extended the list is still the constructor's, the history is the names
\* of the first cursor entries and suggest() yields the entry at the cursor.
C2_DislikeHistory == [](C2_StateOK) /\ [][C2_StepOK]_vars

C2_Witness ==
    /\ hasMatcher /\ untouched /\ op = "dislike" /\ ret = "none"
    /\ matcher.cursor = 2 /\ matcher.disliked = <<"Rome", "Oslo">>

\* C3: replace_suggestions leaves disliked_names as it was.
C3_ReplaceKeepsDisliked ==
    [][(SameMatcher /\ op' = "replace_suggestions")
          => matcher'.disliked = matcher.disliked]_vars

C3_Witness ==
    /\ hasMatcher /\ op = "replace_suggestions" /\ ret = "none"
    /\ Len(matcher.disliked) >= 2 /\ arg.items # <<>>

\* what C4 says of the steps
C4_StepOK ==
    /\ (SameMatcher /\ op' = "replace_suggestions" /\ isinstance_list(arg')) =>
          /\ ret' = "none"
          /\ matcher'.cursor = 0
          /\ matcher'.recs = arg'.items
          /\ suggest(matcher') = IF arg'.items = <<>> THEN None ELSE arg'.items[1]
    /\ (op = "replace_suggestions" /\ ret = "none" /\ op' = "suggest") =>
          ret' = IF arg.items = <<>> THEN None ELSE arg.items[1]

\* C4: after replace_suggestions(L) with a list L the cursor is 0, the
\* recommendations are L, and suggest() returns L[0], or None for an empty L.
C4_ReplaceResets == [][C4_StepOK]_vars

C4_Witness ==
    /\ hasMatcher /\ op = "replace_suggestions" /\ ret = "none"
    /\ arg.items # <<>> /\ Len(matcher.disliked) = 1 /\ ~untouched
    /\ Len(arg.items) = 1

\* C5: dislike() on an exhausted Matcher (also one with an empty list) raises
\* and leaves the Matcher as it was.
C5_DislikeExhaustedFails ==
    [][(SameMatcher /\ op' = "dislike" /\ Exhausted(matcher))
          => (ret' # "none" /\ matcher' = matcher)]_vars

C5_Witness ==
    /\ hasMatcher /\ op = "dislike" /\ ret = "AttributeError"
    /\ matcher.recs # <<>> /\ Len(matcher.disliked) = Len(matcher.recs)

\* what C6 says of the steps
C6_StepOK ==
    /\ op' = "suggest" =>
          /\ ret' = CurrentItem(matcher)
          /\ matcher' = matcher /\ hasMatcher' = hasMatcher
    /\ (op = "suggest" /\ op' = "suggest") => ret' = ret

\* C6: suggest() returns recommendations[cursor] while cursor < len and None
\* otherwise, never an error; it changes nothing of the Matcher, and a repeated
\* call returns the same value.
C6_SuggestIsPureRead == [][C6_StepOK]_vars

C6_Witness ==
    /\ hasMatcher /\ op = "suggest" /\ ret = None
    /\ matcher.recs # <<>> /\ Exhausted(matcher)

\* what C7 says of the steps
C7_StepOK ==
    SameMatcher =>
        /\ (op' = "dislike" /\ ret' = "none") => matcher'.cursor = matcher.cursor + 1
        /\ matcher'.cursor # matcher.cursor =>
              \/ op' = "dislike" /\ ret' = "none"
              \/ op' = "replace_suggestions" /\ ret' = "none" /\ matcher'.cursor = 0

\* C7: the cursor of a Matcher grows only by a successful dislike(), which adds
\* exactly 1; the only other change is replace_suggestions setting it to 0.
C7_CursorOnlyByDislike == [][C7_StepOK]_vars

C7_Witness ==
    /\ client = "app" /\ hasMatcher /\ op = "dislike" /\ ret = "none"
    /\ matcher.cursor = 1 /\ ~untouched

\* C8: replace_suggestions and add_suggestions called with a value that is no
\* list raise TypeError and leave the Matcher as it was.
C8_NonListRejected ==
    [][(SameMatcher /\ op' \in {"replace_suggestions", "add_suggestions"}
           /\ ~isinstance_list(arg'))
          => (ret' = "TypeError" /\ matcher' = matcher)]_vars

C8_Witness ==
    /\ hasMatcher /\ op = "add_suggestions" /\ ret = "TypeError"
    /\ arg = PyTuple(<<"d1">>) /\ matcher.cursor > 0

\* what C9 says of the steps
C9_StepOK ==
    (SameMatcher /\ op' = "add_suggestions" /\ isinstance_list(arg')) =>
        /\ ret' = "none"
        /\ matcher'.recs = matcher.recs \o arg'.items
        /\ matcher'.cursor = matcher.cursor
        /\ matcher'.disliked = matcher.disliked
        /\ (Exhausted(matcher) /\ arg'.items # <<>>) => suggest(matcher') = arg'.items[1]

\* C9: add_suggestions(L) with a list L appends L behind the recommendations,
\* in order, and keeps cursor and disliked_names; on a Matcher that was
\* exhausted, with a non-empty L, suggest() then returns L[0].
C9_AddAppends == [][C9_StepOK]_vars

C9_Witness ==
    /\ hasMatcher /\ op = "add_suggestions" /\ ret = "none"
    /\ arg.items # <<>> /\ matcher.cursor > 0
    /\ matcher.cursor = Len(matcher.recs) - Len(arg.items)

\* what C10 says of the steps
C10_StepOK ==
    (op' = "stage" /\ arg' \notin Stages) => (ret' = "TypeError" /\ appState' = appState)

\* C10: assigning stage a value that is no member of Stage (also the raw
\* identifier of a stage) raises and keeps the stage held before; the stage is
\* a member of Stage in every reachable state.
C10_StageIsEnumMember == [](appState.stage \in Stages) /\ [][C10_StepOK]_vars

C10_Witness ==
    /\ op = "stage" /\ ret = "TypeError" /\ arg = [type |-> "str", value |-> "matcher"]
    /\ appState.stage = PRESENT_DETAILS

\* C11: reset(), in whatever state it is called, leaves the AppState equal to
\* a freshly constructed one: stage START, user_info, preferences and
\* matched_destination unset.
C11_ResetIsFresh ==
    [][op' = "reset" =>
          /\ appState' = AppState_init
          /\ appState'.stage = START
          /\ appState'.user_info = NoUserInfo
          /\ appState'.user_preferences = None
          /\ appState'.matched_destination = None]_vars

C11_Witness ==
    /\ op = "reset" /\ client = "state_client" /\ appState = AppState_init

\* C12: assigning user_info a value that is neither None nor a UserInfo raises
\* and keeps the user_info held before.
C12_MalformedUserRejected ==
    [][(op' = "user_info" /\ arg'.type \notin {"NoneType", "UserInfo"})
          => (ret' = "TypeError" /\ appState' = appState)]_vars

C12_Witness ==
    /\ op = "user_info" /\ ret = "TypeError" /\ arg.type = "dict"
    /\ isinstance_UserInfo(appState.user_info)

\* the stage changes the handlers may make
Forward ==
    {<<START, USER_PREFERENCES>>, <<USER_PREFERENCES, RETRIEVE_SUGGESTIONS>>,
     <<RETRIEVE_SUGGESTIONS, MATCHER>>, <<MATCHER, PRESENT_DETAILS>>}

\* what C13 says of the steps
C13_StepOK ==
    appState'.stage # appState.stage => <<appState.stage, appState'.stage>> \in Forward

\* C13: the handlers change the stage only one stage forward along START,
\* USER_PREFERENCES, RETRIEVE_SUGGESTIONS, MATCHER, PRESENT_DETAILS; nothing
\* leaves PRESENT_DETAILS, and RETRIEVE_NEW_SUGGESTIONS is never the stage.
C13_StageOnlyForward ==
    [](appState.stage # RETRIEVE_NEW_SUGGESTIONS) /\ [][C13_StepOK]_vars

C13_Witness ==
    /\ appState.stage = PRESENT_DETAILS /\ op = "handle_present_details"
    /\ ~untouched

\* C14: the stage leaves START only with a name and a gender entered, and
\* with user_info set: whenever the stage is not START, user_info is a
\* UserInfo with a non-empty name and a gender.
C14_UserKnownAfterStart ==
    appState.stage # START =>
        /\ isinstance_UserInfo(appState.user_info)
        /\ appState.user_info.name # ""
        /\ appState.user_info.gender # None

C14_Witness ==
    /\ appState.stage = USER_PREFERENCES /\ op = "handle_start"
    /\ appState.user_info.name = "Bob"

\* C15: when the initial fetch returns an empty list, the run ends with the
\* stage at USER_PREFERENCES or RETRIEVE_SUGGESTIONS, without an exception,
\* and without a Matcher being constructed or stored.
C15_EmptyFetchNoMatcher ==
    [][(op' = "get_suggestions" /\ arg' = PyList(<<>>)) =>
          /\ appState'.stage \in {USER_PREFERENCES, RETRIEVE_SUGGESTIONS}
          /\ ~hasMatcher'
          /\ pc' = "idle"
          /\ ret' = "none"]_vars

C15_Witness ==
    /\ op = "get_suggestions" /\ arg = PyList(<<>>) /\ ~hasMatcher
    /\ appState.stage = RETRIEVE_SUGGESTIONS /\ appState.user_preferences = "prefsB"
    /\ request.made /\ request.exclude = PyNone

\* app.py: the stages that have an entry in stage_handlers
HandledStages == {START, USER_PREFERENCES, MATCHER, PRESENT_DETAILS}

\* C16: after an initial fetch that returned an empty list the session is in
\* a stage that has a handler, and "Get suggestions" can be pressed again.
C16_RetryAfterEmptyFetch ==
    (op = "get_suggestions" /\ arg = PyList(<<>>)) =>
        /\ appState.stage \in HandledStages
        /\ ENABLED (\E outcome \in RecommendOutcomes : GetSuggestions(outcome))

\* what C17 says of the states
C17_StateOK ==
    appState.stage = PRESENT_DETAILS =>
        /\ appState.matched_destination # None
        /\ hasMatcher
        /\ \E i \in 1 .. Len(matcher.recs) : matcher.recs[i] = appState.matched_destination
        /\ appState.matched_destination = CurrentItem(matcher)

\* what C17 says of the steps
C17_StepOK ==
    (appState.stage = MATCHER /\ appState'.stage = PRESENT_DETAILS) =>
        /\ op' = "like"
        /\ hasMatcher /\ ~Exhausted(matcher)
        /\ appState'.matched_destination = CurrentItem(matcher)
        /\ matcher' = matcher

\* C17: the stage goes from MATCHER to PRESENT_DETAILS only by "Like" while
\* there is a current suggestion, which becomes matched_destination; in
\* PRESENT_DETAILS matched_destination is set and is a member of the
\* Matcher's recommendations.
C17_LikeSetsMatch == [](C17_StateOK) /\ [][C17_StepOK]_vars

C17_Witness ==
    /\ appState.stage = PRESENT_DETAILS /\ op = "like"
    /\ appState.matched_destination = "d3" /\ matcher.cursor = 1

\* what C18 says of the steps
C18_StepOK ==
    op' \in {"replace_suggestions", "refill"} =>
        /\ request'.made /\ submitted.made
        /\ request'.exclude = PyList(dislikeLog)
        /\ request'.preferences = submitted.preferences
        /\ request'.user_information = submitted.user_information

\* C18: every refill request carries all names disliked since the Matcher was
\* constructed as the exclusion list, and the preferences and the user of the
\* initial fetch.
C18_RefillExcludesAllDisliked == [][C18_StepOK]_vars

C18_Witness ==
    /\ op = "replace_suggestions" /\ request.made
    /\ Len(request.exclude.items) = 3 /\ ~untouched
    /\ request.preferences = "prefsB"

\* what C19 says of the steps
C19_StepOK ==
    op' \in {"dislike", "replace_suggestions", "refill"} =>
        /\ appState.stage = MATCHER /\ appState'.stage = MATCHER
        /\ op' = "replace_suggestions" =>
              /\ arg'.items # <<>>
              /\ matcher'.recs = arg'.items
        /\ (op' = "refill" /\ arg' = PyList(<<>>)) =>
              (matcher' = matcher /\ hasMatcher' = hasMatcher)

\* C19: a dislike or a refill in stage MATCHER keeps the stage; a refill with
\* a non-empty result installs exactly the returned list, names that were
\* disliked included; a refill with an empty result leaves the Matcher as it
\* was.
C19_RefillInstallsAsReturned == [][C19_StepOK]_vars

C19_Witness ==
    /\ op = "replace_suggestions" /\ appState.stage = MATCHER
    /\ matcher.recs = <<"d3", "d2">> /\ matcher.disliked = <<"Rome", "Oslo">>

\* C20: every Destination of a list that is the Matcher's recommendations,
\* after the initial fetch and after a refill, has had its photo lookup run.
C20_EveryBatchEnriched ==
    hasMatcher =>
        \A i \in 1 .. Len(matcher.recs) : image_url[matcher.recs[i]] # "from_model"

\* the lookup just ended returned without data: None, no "data", or no photo
NoData(photos) == photos.type = "NoneType" \/ ~photos.has_data \/ Len(photos.data) = 0

\* what C21 says of the step that ends a lookup which returned
C21_StepOK ==
    (op' = "fetch_image" /\ arg'.photos.type # "exception") =>
        LET d == arg'.items[1]
        IN  /\ ret' = "none" /\ pc' = pc
            /\ image_url'[d] = IF NoData(arg'.photos) THEN None
                               ELSE arg'.photos.data[1].original
            /\ \A e \in Destinations \ {d} : image_url'[e] = image_url[e]

\* what C21 says of the batch the Matcher is constructed from
C21_StateOK ==
    (client = "app" /\ op = "construct") =>
        \A i \in 1 .. Len(matcher.recs) :
            image_url[matcher.recs[i]] \in
                {None, Url(Name(matcher.recs[i]), 1, "original")}

\* C21: a lookup that returns no data (None, no "data", an empty photo list)
\* leaves its destination's image_url unset and does not raise; a lookup that
\* returns photos sets image_url to the original-size URL of its own first
\* photo; no other destination's image_url changes, so a batch with one such
\* destination completes with that one unset and the others set.
C21_NoDataLeavesUnset == [](C21_StateOK) /\ [][C21_StepOK]_vars

C21_Witness ==
    /\ client = "app" /\ op = "construct" /\ matcher.recs = <<"d1", "d2">>
    /\ image_url["d1"] = None /\ image_url["d2"] = "oslo/1/original"

\* C22: when the lookup of one destination raises, the gather goes on: that
\* destination's image_url is unset, and the batch call still returns.
C22_FailureIsolated ==
    (op = "fetch_image" /\ arg.photos.type = "exception") =>
        /\ pc = "enriching"
        /\ image_url[arg.items[1]] = None

\* what C23 says of the step that constructs the Matcher in the handler
C23_StepOK ==
    ((op' = "construct" /\ client = "app")
        \/ (appState.stage # MATCHER /\ appState'.stage = MATCHER)) =>
        /\ pc = "enriching" /\ pending = {} /\ outstanding = {}
        /\ matcher'.recs = batch /\ hasMatcher'
        /\ \A i \in 1 .. Len(batch) :
              /\ fetched[i] # "pending"
              /\ image_url'[batch[i]] = fetched[i]

\* C23: the Matcher is constructed and the stage set to MATCHER only when every
\* lookup of the batch has finished, and then each destination's image_url is
\* what its own lookup produced, in whatever order the lookups ran.
C23_JoinBeforeMatcher == [][C23_StepOK]_vars

C23_Witness ==
    /\ client = "app" /\ op = "construct" /\ matcher.recs = <<"d2", "d3">>
    /\ image_url["d3"] = "rome/1/original" /\ image_url["d2"] = None
    /\ appState.stage = MATCHER

\* C24: the lookups of a batch run concurrently: once one lookup of the batch
\* has finished, the request of every other destination of the batch has been
\* issued and is outstanding.
C24_LookupsOverlap ==
    (pc = "enriching" /\ pending # 1 .. Len(batch)) =>
        \A j \in pending : \E o \in outstanding : o.task = j

\* C25: when a call to the recommendation source or to the location service
\* raises in the initial fetch, the refill or the enrichment, the handler ends
\* without an exception, with the stage not advanced to MATCHER.
C25_UpstreamFailureContained ==
    (op \in {"get_suggestions", "refill", "gather"} /\ arg = Raised) =>
        /\ ret = "none"
        /\ op # "refill" => appState.stage # MATCHER

\* C26: in PRESENT_DETAILS neither request's failure crashes the step: the
\* overview is shown whenever it was returned, whatever the details lookup
\* did, and the coordinates are shown whenever they were returned, whatever
\* the overview request did.
C26_IndependentlyFailable ==
    op = "handle_present_details" =>
        /\ ret = "none"
        /\ arg.overview = "text" => "overview" \in page
        /\ arg.details = "coordinates" => "coordinates" \in page

\* C27: the list a list_suggestions() call returned holds what it held when it
\* was returned, whatever add_suggestions, replace_suggestions or dislike did
\* to the Matcher since.
C27_ListIsSnapshot == listed.held => listed.now = listed.before

\* C28: in every state of a Matcher the last `cursor` entries of
\* disliked_names are the names of recommendations[0 .. cursor-1], in order;
\* so disliked_names has at least `cursor` entries.
C28_DislikedCoversPrefix ==
    hasMatcher =>
        /\ matcher.cursor <= Len(matcher.disliked)
        /\ SubSeq(matcher.disliked, Len(matcher.disliked) - matcher.cursor + 1,
                  Len(matcher.disliked))
              = Names(SubSeq(matcher.recs, 1, matcher.cursor))

C28_Witness ==
    /\ client = "matcher_client" /\ hasMatcher /\ ~untouched
    /\ matcher.cursor = 2 /\ matcher.disliked = <<"Oslo", "Rome", "Oslo">>
    /\ Len(matcher.recs) = 3

\* C29: while the stage is MATCHER the session holds a Matcher that was
\* constructed from a non-empty list, the preferences are set, and the
\* "Matcher not found" branch of the matcher handler is never taken.
C29_MatcherStageHasMatcher ==
    /\ appState.stage = MATCHER =>
          /\ hasMatcher
          /\ Len(matcher.recs) >= 1
          /\ appState.user_preferences # None
    /\ op # "matcher_not_found"
    /\ (client = "app" /\ op = "construct") => arg.items # <<>>

C29_Witness ==
    /\ client = "app" /\ appState.stage = MATCHER /\ op = "handle_matcher"
    /\ hasMatcher /\ Exhausted(matcher) /\ appState.user_preferences = "prefsA"

\* what C30 says of the steps
C30_StepOK ==
    /\ op' = "replace_suggestions" =>
          /\ hasMatcher /\ matcher.cursor = Len(matcher.recs)
          /\ \A i \in 1 .. Len(matcher.recs) :
                \E j \in 1 .. Len(matcher.disliked) :
                   matcher.disliked[j] = Name(matcher.recs[i])
          /\ arg'.type = "list" /\ Len(arg'.items) >= 1
    /\ op' \in {"replace_suggestions", "refill"} =>
          /\ request'.exclude.type = "list"
          /\ Len(request'.exclude.items) >= 1

\* C30: the handlers call replace_suggestions only on an exhausted Matcher,
\* every candidate of which was disliked, and only with a non-empty list; every
\* refill request carries a non-empty exclusion list.
C30_ReplaceOnlyWhenExhausted == [][C30_StepOK]_vars

C30_Witness ==
    /\ client = "app" /\ op = "replace_suggestions" /\ matcher.cursor = 0
    /\ request.exclude = PyList(<<"Oslo">>) /\ Len(matcher.recs) = 2

====
